---- MODULE Spec2Model ----
(***************************************************************************)
(* Model of the Cloudflare Worker of "Send Ryan a Bird": the bucket-quota  *)
(* accounting (getBucketStats), the oldest-first cleanup (cleanupOldFiles) *)
(* and the upload handler (handleUploadImage) that runs them around every  *)
(* put on the R2 bucket.                                                   *)
(* Around them: the rate limiter of worker.fetch, GET /list, POST /sms and  *)
(* the send of the page (App.jsx), each with a specification of its own.   *)
(*                                                                         *)
(* Every `await` of the worker is one step of the model, so two requests   *)
(* interleave exactly at the bucket calls (list, delete, put).  The R2     *)
(* bucket is the shared state; a bucket call either succeeds or throws.    *)
(*                                                                         *)
(* Sizes are counted in units of 1/GiB of a GiB and the object counts are  *)
(* scaled down, keeping every comparison of the source as it is written:   *)
(*   MAX_BUCKET_SIZE = 9 GiB, MAX_FILE_SIZE (10 MiB in the source) = 2     *)
(*   units, MAX_FILES_IN_BUCKET (500 in the source) = 5.                   *)
(* The fractions 0.85 and 0.8 are kept exact: a comparison x > M * 0.85 is *)
(* written x * 100 > M * 85.                                               *)
(***************************************************************************)
EXTENDS Integers, Sequences, FiniteSets, TLC

\* ------------------------------------------------------------- bounds
GiB == 2             \* size units per GiB
NumReq == 2          \* request slots that can be in flight together
MaxUploads == 2      \* upload requests started in one behaviour
MaxInitFiles == 5    \* objects in the bucket before the first request
MaxTime == 1         \* clock ticks (milliseconds) after the start
PageSize == 2        \* objects per page of bucket.list (R2: at most 1000)
NumExts == 1         \* distinct file extensions among the uploads
MaxFaults == 2       \* bucket calls that throw in one behaviour
MaxPlanFiles == 3    \* objects of the inventories cleanupOldFiles is tried on
MaxPlanTime == 3     \* distinct upload times of those objects
MaxLog == 20         \* bucket calls of one request that are kept on record
MaxAdapterFiles == 2 \* objects in the bucket behind a misbehaving adapter
MaxStatsFiles == 11  \* objects of the buckets getBucketStats is tried on
MaxListFiles == 5    \* objects of the buckets GET /list is tried on
MaxListTime == 3     \* distinct upload times of those objects
NumClients == 2      \* client addresses (CF-Connecting-IP)
MaxFetches == 4      \* requests worker.fetch receives in one behaviour
MaxRateTime == 3     \* clock ticks (milliseconds) the rate limiter is watched for
MaxSends == 2        \* sends the user of the page starts in one behaviour

\* ---------------------------------------------------- program constants
MAX_FILE_SIZE == 2
MAX_REQUEST_SIZE == 3        \* 15 MiB: one and a half MAX_FILE_SIZE
MAX_BUCKET_SIZE == 9 * GiB
MAX_FILES_IN_BUCKET == 5
CLEANUP_THRESHOLD == 85      \* 0.85, in hundredths
CleanTo == 8                 \* the literal 0.8 of targetSize/targetCount, in tenths

\* the extensions of the uploaded file names, in lexicographic order: the
\* allowed ones and one that is not allowed
Exts == 1..NumExts
ALLOWED_EXTENSIONS == Exts
OtherExt == NumExts + 1
ALLOWED_IMAGE_TYPES == {"image/jpeg", "image/png"}
ALLOWED_SMS_RECIPIENT == "+17573030776"
RATE_LIMIT_REQUESTS == 2     \* 20 in the source
RATE_LIMIT_WINDOW == 2       \* 60000 ms in the source

Reqs == 1..NumReq
Clients == 1..NumClients
NoCursor == <<>>
NoKey == <<>>

VARIABLES
  bucket,        \* env.R2_BUCKET: set of objects [key, size, uploaded]
  now,           \* Date.now()
  started,       \* number of upload requests received so far
  pc,            \* per request: where handleUploadImage stands
  req,           \* per request: the decoded body [fileSize, ext]
  stats,         \* getBucketStats: { totalSize, fileCount } accumulated so far
  cursor,        \* the cursor of the listing loop the request is in
  target,        \* cleanupOldFiles' arguments [size (in 1/1000 unit), count]
  allObjects,    \* cleanupOldFiles: the objects listed so far / sorted
  filesToDelete, \* cleanupOldFiles: the selected keys
  delIdx,        \* cleanupOldFiles: position of the delete loop
  cleanupResult, \* cleanupOldFiles' return value
  timestamp,     \* handleUploadImage: const timestamp = Date.now()
  resp,          \* the Response of the request
  calls,         \* the bucket calls the request has made, in order
  faults,        \* number of bucket calls that have thrown
  atStart,       \* per request: the bucket as it was when the request arrived
  pageSize,      \* objects per page of bucket.list (R2: at most 1000)
  listResponse,  \* the Response of GET /list
  sms,           \* POST /sms: the request, its Response, the calls to Twilio
  rateLimitStore,\* per client address: { count, resetTime } (count 0: no entry)
  fetchLog,      \* the requests worker.fetch has answered or routed, in order
  app            \* the page: its React state and where uploadToR2/sendSMS stand

vars == <<bucket, now, started, pc, req, stats, cursor, target, allObjects,
          filesToDelete, delIdx, cleanupResult, timestamp, resp, calls, faults, atStart,
          pageSize, listResponse, sms, rateLimitStore, fetchLog, app>>

\* ------------------------------------------------------------ helpers
Min(a, b) == IF a < b THEN a ELSE b

RECURSIVE SumSizes(_)
SumSizes(S) ==
  IF S = {} THEN 0
  ELSE LET o == CHOOSE x \in S : TRUE IN o.size + SumSizes(S \ {o})

RECURSIVE SeqSizes(_)
SeqSizes(s) == IF s = <<>> THEN 0 ELSE Head(s).size + SeqSizes(Tail(s))

TotalSize == SumSizes(bucket)

\* R2 lists keys in lexicographic order; a key is <<timestamp, ext>> for
\* `bird-${timestamp}${ext}`, preloaded objects have names that sort first.
KeyLess(a, b) == a[1] < b[1] \/ (a[1] = b[1] /\ a[2] < b[2])

\* the objects of S in key order: the i-th has i - 1 keys before its own
InKeyOrder(S) ==
  [i \in 1..Cardinality(S) |->
     CHOOSE o \in S : Cardinality({y \in S : KeyLess(y.key, o.key)}) = i - 1]

\* bucket.list({ cursor }): one page and the cursor for the next, if any
ListPage(b, cur) ==
  LET rest == {o \in b : cur = NoCursor \/ KeyLess(cur, o.key)}
      s == InKeyOrder(rest)
      n == Min(pageSize, Len(s))
  IN [objects |-> SubSeq(s, 1, n),
      cursor |-> IF Len(s) > pageSize THEN s[n].key ELSE NoCursor]

\* (x).toFixed(2) of n/d, as a number of hundredths
ToFixed2(n, d) == (200 * n + d) \div (2 * d)


\* ------------------------------------------------- cleanupOldFiles (plan)
\* allObjects.sort((a, b) => a.uploaded - b.uploaded): a stable sort, oldest
\* first; objects of the same age keep the order of the listing.  The object
\* at position i goes behind the older ones and the equally old listed before.
InsertByUploaded(s, i) ==
  1 + Cardinality({j \in 1..Len(s) :
                     \/ s[j].uploaded < s[i].uploaded
                     \/ s[j].uploaded = s[i].uploaded /\ j < i})

\* a cleanup that keeps the order of the listing (no sort)
ListingOrder(s) == s

SortByUploaded(s) ==
  [k \in 1..Len(s) |-> s[CHOOSE i \in 1..Len(s) : InsertByUploaded(s, i) = k]]

\* a loop that goes on while the count only equals its target
UnderLimitsStrict(currentSize, currentCount, targetSize, targetFileCount) ==
  currentSize * 1000 <= targetSize /\ currentCount < targetFileCount

\* a loop that stops only when the count is exactly its target
UnderLimitsExact(currentSize, currentCount, targetSize, targetFileCount) ==
  currentSize * 1000 <= targetSize /\ currentCount = targetFileCount

\* a loop that stops as soon as one of the two targets is met
UnderLimitsEither(currentSize, currentCount, targetSize, targetFileCount) ==
  currentSize * 1000 <= targetSize \/ currentCount <= targetFileCount

\* currentSize <= targetSize && currentCount <= targetFileCount
\* (targetSize is given in thousandths of a unit)
UnderLimits(currentSize, currentCount, targetSize, targetFileCount) ==
  currentSize * 1000 <= targetSize /\ currentCount <= targetFileCount

\* for (const obj of allObjects) { if (under limits) break; push; subtract }
RECURSIVE SelectFiles(_, _, _, _, _)
SelectFiles(objs, currentSize, currentCount, targetSize, targetFileCount) ==
  IF objs = <<>> \/ UnderLimits(currentSize, currentCount, targetSize, targetFileCount)
  THEN [filesToDelete |-> <<>>, remainingSize |-> currentSize,
        remainingCount |-> currentCount]
  ELSE LET rest == SelectFiles(Tail(objs), currentSize - Head(objs).size,
                               currentCount - 1, targetSize, targetFileCount)
       IN [rest EXCEPT !.filesToDelete = <<Head(objs).key>> \o @]

PlanCleanup(sorted, targetSize, targetFileCount) ==
  SelectFiles(sorted, SeqSizes(sorted), Len(sorted), targetSize, targetFileCount)

\* ------------------------------------------- handleUploadImage (decision)
\* a check that also refuses the upload that fills the bucket exactly
IsAtCapacityInclusive(projectedSize) == projectedSize >= MAX_BUCKET_SIZE

\* projectedSize > MAX_BUCKET_SIZE
IsAtCapacity(projectedSize) == projectedSize > MAX_BUCKET_SIZE

\* a trigger that looks at the size only
NeedsCleanupSizeOnly(projectedSize, projectedCount) ==
  projectedSize * 100 > MAX_BUCKET_SIZE * CLEANUP_THRESHOLD

\* projectedSize > MAX_BUCKET_SIZE * CLEANUP_THRESHOLD || projectedCount > MAX_FILES_IN_BUCKET
NeedsCleanup(projectedSize, projectedCount) ==
  \/ projectedSize * 100 > MAX_BUCKET_SIZE * CLEANUP_THRESHOLD
  \/ projectedCount > MAX_FILES_IN_BUCKET

\* MAX_BUCKET_SIZE * CLEANUP_THRESHOLD * 0.8, in thousandths of a unit
CleanupTargetSize == MAX_BUCKET_SIZE * CLEANUP_THRESHOLD * CleanTo

\* Math.floor(MAX_FILES_IN_BUCKET * 0.8)
CleanupTargetCount == (MAX_FILES_IN_BUCKET * CleanTo) \div 10

\* a handler that cleans up first and checks the capacity afterwards
NextStepCleanupFirst(after, projectedSize, projectedCount) ==
  IF after = "stats"
  THEN IF NeedsCleanup(projectedSize, projectedCount) THEN "cleanup"
       ELSE IF IsAtCapacity(projectedSize) THEN "reject"
       ELSE "put"
  ELSE IF IsAtCapacity(projectedSize) THEN "reject" ELSE "put"

\* The control flow of the handler between getBucketStats and the put:
\* after the stats the capacity check (return 507), then the cleanup check;
\* after cleanupOldFiles the handler goes on to the put.
NextStep(after, projectedSize, projectedCount) ==
  IF after = "stats"
  THEN IF IsAtCapacity(projectedSize) THEN "reject"
       ELSE IF NeedsCleanup(projectedSize, projectedCount) THEN "cleanup"
       ELSE "put"
  ELSE "put"

NoResponse == [status |-> 0, currentSize |-> -1, maxSize |-> -1, fileName |-> NoKey]

\* the 507 body: currentSize and maxSize in GB with two decimals
Response507(st) ==
  [status |-> 507, currentSize |-> ToFixed2(st.totalSize, GiB),
   maxSize |-> ToFixed2(MAX_BUCKET_SIZE, GiB), fileName |-> NoKey]

Response(code) == [NoResponse EXCEPT !.status = code]

Call(op, by, ok, key) ==
  [op |-> op, by |-> by, ok |-> ok, key |-> key, contentType |-> ""]

\* bucket.put(key, bytes, { httpMetadata: { contentType } })
PutCall(ok, key, contentType) ==
  [Call("put", "upload", ok, key) EXCEPT !.contentType = contentType]

\* the record of the bucket calls of a request (its first MaxLog calls)
Logged(log, c) == IF Len(log) < MaxLog THEN Append(log, c) ELSE log

NoListResponse == [status |-> 0, images |-> <<>>]

\* POST /sms: no mediaUrl, the body with the Twilio credentials of the
\* environment, and the state before the request
NoUrl == [text |-> "", host |-> "", dir |-> "", key |-> NoKey]

SmsBody(configured, recipientPhoneNumber, mediaUrl) ==
  [configured |-> configured, recipientPhoneNumber |-> recipientPhoneNumber,
   mediaUrl |-> mediaUrl]

NoSmsBody == SmsBody(FALSE, "", NoUrl)

NoSms == [body |-> NoSmsBody, status |-> 0, twilio |-> <<>>, bucket |-> {}]

\* rateLimitStore = new Map(): no entry for any client
NoLimit == [count |-> 0, resetTime |-> 0]
NoLimits == [ip \in Clients |-> NoLimit]

\* the page (App.jsx) before anything is selected: its React state, the
\* last Response it received, the last alert, the sends started, and where
\* uploadToR2 / sendSMS stand
NoAppResponse == [status |-> 0, json |-> FALSE]

NoApp ==
  [pc |-> "idle", sending |-> FALSE, birdImage |-> FALSE, message |-> "",
   alert |-> "", response |-> NoAppResponse, sends |-> 0]

NoResult == [returned |-> FALSE, deleted |-> 0, remainingSize |-> 0, remainingCount |-> 0]

\* what the handler does once it holds the stats `st` (after = "stats") or
\* once cleanupOldFiles has returned (after = "cleanup")
Continue(r, after, st) ==
  LET projectedSize == st.totalSize + req[r].fileSize
      projectedCount == st.fileCount + 1
      step == NextStep(after, projectedSize, projectedCount)
  IN /\ pc' = [pc EXCEPT ![r] = IF step = "reject" THEN "done" ELSE step]
     /\ resp' = [resp EXCEPT ![r] = IF step = "reject" THEN Response507(st) ELSE @]
     /\ target' = [target EXCEPT ![r] =
                     IF step = "cleanup"
                     THEN [size |-> CleanupTargetSize, count |-> CleanupTargetCount]
                     ELSE @]
     /\ timestamp' = [timestamp EXCEPT ![r] = IF step = "put" THEN now ELSE @]
     /\ cursor' = [cursor EXCEPT ![r] = NoCursor]


\* ------------------------------------------ handleUploadImage (validation)
\* The request: the Content-Length header (0: none) and the JSON body.  A
\* fileName is given by its extension (0: no fileName); fileData is missing
\* (""), not base64 ("!") or base64 that decodes to fileSize units.
NoBody ==
  [contentLength |-> 0, fileName |-> 0, fileData |-> "", contentType |-> "",
   fileSize |-> 0, ext |-> 1]

Body(contentLength, fileName, fileData, contentType, fileSize) ==
  [contentLength |-> contentLength, fileName |-> fileName, fileData |-> fileData,
   contentType |-> contentType, fileSize |-> fileSize,
   ext |-> IF fileName = 0 THEN 1 ELSE fileName]

\* an upload of any extension, type and size, or an upload that has one thing
\* wrong: a request too long, no fileName, no fileData, fileData not base64
Bodies ==
  {Body(MAX_REQUEST_SIZE, fn, "base64", ct, size) :
     fn \in Exts \cup {OtherExt}, ct \in {"image/png", "text/plain"},
     size \in 1..(MAX_FILE_SIZE + 1)}
  \cup {Body(MAX_REQUEST_SIZE + 1, 1, "base64", "image/png", 1),
        Body(MAX_REQUEST_SIZE, 0, "base64", "image/png", 1),
        Body(MAX_REQUEST_SIZE, 1, "", "image/png", 0),
        Body(MAX_REQUEST_SIZE, 1, "!", "image/png", 0),
        Body(MAX_REQUEST_SIZE, 1, "base64", "", 1),
        Body(MAX_REQUEST_SIZE, OtherExt, "base64", "IMAGE/PNG", 1)}

\* an upload as the page sends it, of any size
PlainBody(fileSize) == Body(MAX_REQUEST_SIZE, 1, "base64", "image/png", fileSize)

PlainBodies == {PlainBody(size) : size \in 1..(MAX_FILE_SIZE + 1)}

\* contentType.toLowerCase()
toLowerCase(contentType) ==
  IF contentType = "IMAGE/PNG" THEN "image/png" ELSE contentType

isValidImageType(contentType, fileName) ==
  \/ contentType # "" /\ toLowerCase(contentType) \in ALLOWED_IMAGE_TYPES
  \/ fileName \in ALLOWED_EXTENSIONS

\* a size check that lets one unit more through
IsTooLargeByMore(fileSize) == fileSize > MAX_FILE_SIZE + 1

\* fileSize > MAX_FILE_SIZE
IsTooLarge(fileSize) == fileSize > MAX_FILE_SIZE

\* a decoding that takes anything for base64
DecodesAlways(fileData) == TRUE

\* atob(fileData) does not throw
Decodes(fileData) == fileData = "base64"

\* the status of the client error the checks before the bucket answer with,
\* 0 when the request passes all of them
Validation(body) ==
  IF body.contentLength # 0 /\ body.contentLength > MAX_REQUEST_SIZE THEN 413
  ELSE IF body.fileName = 0 \/ body.fileData = "" THEN 400
  ELSE IF ~isValidImageType(body.contentType, body.fileName) THEN 400
  ELSE IF ~Decodes(body.fileData) THEN 400
  ELSE IF IsTooLarge(body.fileSize) THEN 413
  ELSE 0

\* ---------------------------------------------------------------- Init
\* Objects already in the bucket: names that sort before every bird-* key,
\* the listing order being the reverse of the age order (pairs of equal age).
InitSizes == {1, (MAX_BUCKET_SIZE - 4) \div 2}

MkBucket(n, sz, up) ==
  {[key |-> <<i - n - 1, 1>>, size |-> sz[i], uploaded |-> up[i]] : i \in 1..n}

Monotone(sz, n) ==
  \/ \A i \in 1..(n - 1) : sz[i] <= sz[i + 1]
  \/ \A i \in 1..(n - 1) : sz[i] >= sz[i + 1]

InitBuckets ==
  {b \in UNION {{MkBucket(n, sz, [i \in 1..n |-> ((n - i) \div 2) + 1]) :
                   sz \in {f \in [1..n -> InitSizes] : Monotone(f, n)}} :
                 n \in 0..MaxInitFiles} :
     SumSizes(b) <= MAX_BUCKET_SIZE}

StartTime == MaxInitFiles + 1

IdleLocals ==
  /\ pc = [r \in Reqs |-> "idle"]
  /\ req = [r \in Reqs |-> NoBody]
  /\ stats = [r \in Reqs |-> [totalSize |-> 0, fileCount |-> 0]]
  /\ cursor = [r \in Reqs |-> NoCursor]
  /\ target = [r \in Reqs |-> [size |-> 0, count |-> 0]]
  /\ allObjects = [r \in Reqs |-> <<>>]
  /\ filesToDelete = [r \in Reqs |-> <<>>]
  /\ delIdx = [r \in Reqs |-> 1]
  /\ cleanupResult = [r \in Reqs |-> NoResult]
  /\ timestamp = [r \in Reqs |-> 0]
  /\ resp = [r \in Reqs |-> NoResponse]
  /\ calls = [r \in Reqs |-> <<>>]
  /\ atStart = [r \in Reqs |-> {}]
  /\ listResponse = NoListResponse
  /\ sms = NoSms
  /\ rateLimitStore = NoLimits
  /\ fetchLog = <<>>
  /\ app = NoApp

Init ==
  /\ bucket \in InitBuckets
  /\ now = StartTime
  /\ started = 0
  /\ faults = 0
  /\ pageSize = PageSize
  /\ IdleLocals

\* ------------------------------------------------------------- actions
Idle(r) == pc[r] \in {"idle", "done"}

\* the locals of request r become v; the frames of the requests that have
\* been answered are gone (back to the default d)
Fresh(f, r, v, d) ==
  [q \in Reqs |-> IF q = r THEN v ELSE IF pc[q] = "done" THEN d ELSE f[q]]

\* a bucket call throws (ok = FALSE) or not
Outcome(ok) ==
  /\ ok \/ faults < MaxFaults
  /\ faults' = IF ok THEN faults ELSE faults + 1

\* POST /upload arrives: Content-Length checked, body parsed and validated,
\* payload decoded, fileSize checked.  The request takes the first free slot.
Receive(r, bodies) ==
  /\ Idle(r)
  /\ \A q \in Reqs : q < r => ~Idle(q)
  /\ started < MaxUploads
  /\ started' = started + 1
  /\ \E body \in bodies :
       /\ req' = Fresh(req, r, body, NoBody)
       /\ pc' = Fresh(pc, r, IF Validation(body) # 0 THEN "done" ELSE "stats", "idle")
       /\ resp' = Fresh(resp, r, IF Validation(body) # 0 THEN Response(Validation(body))
                                 ELSE NoResponse, NoResponse)
  /\ stats' = Fresh(stats, r, [totalSize |-> 0, fileCount |-> 0],
                    [totalSize |-> 0, fileCount |-> 0])
  /\ cursor' = Fresh(cursor, r, NoCursor, NoCursor)
  /\ target' = Fresh(target, r, [size |-> 0, count |-> 0], [size |-> 0, count |-> 0])
  /\ allObjects' = Fresh(allObjects, r, <<>>, <<>>)
  /\ filesToDelete' = Fresh(filesToDelete, r, <<>>, <<>>)
  /\ delIdx' = Fresh(delIdx, r, 1, 1)
  /\ cleanupResult' = Fresh(cleanupResult, r, NoResult, NoResult)
  /\ timestamp' = Fresh(timestamp, r, 0, 0)
  /\ calls' = Fresh(calls, r, <<>>, <<>>)
  /\ atStart' = Fresh(atStart, r, bucket, {})
  /\ UNCHANGED <<bucket, now, faults, pageSize, listResponse, sms, rateLimitStore, fetchLog, app>>

\* any upload request
Start(r) == Receive(r, Bodies)

\* the same, for requests handled one at a time
StartAlone(r) ==
  /\ \A q \in Reqs : Idle(q)
  /\ Start(r)

\* an upload sent by the page
StartPlain(r) == Receive(r, PlainBodies)

StartPlainAlone(r) ==
  /\ \A q \in Reqs : Idle(q)
  /\ StartPlain(r)

\* getBucketStats: bucket.list returned `page`
StatsListPage(r, page) ==
  /\ pc[r] = "stats"
  /\ \E st \in {[totalSize |-> stats[r].totalSize + SeqSizes(page.objects),
                  fileCount |-> stats[r].fileCount + Len(page.objects)]} :
        /\ stats' = [stats EXCEPT ![r] = st]
        /\ calls' = [calls EXCEPT ![r] = Logged(@, Call("list", "stats", TRUE, NoKey))]
        /\ Outcome(TRUE)
        /\ IF page.cursor # NoCursor /\ st.fileCount < MAX_FILES_IN_BUCKET * 2
           THEN /\ cursor' = [cursor EXCEPT ![r] = page.cursor]
                /\ UNCHANGED <<pc, resp, target, timestamp>>
           ELSE Continue(r, "stats", st)
  /\ UNCHANGED <<bucket, now, started, pageSize, listResponse, sms, rateLimitStore, fetchLog, app, req, allObjects, filesToDelete, delIdx,
                 cleanupResult, atStart>>

\* getBucketStats: one bucket.list page returned by R2
StatsList(r) == \E page \in {ListPage(bucket, cursor[r])} : StatsListPage(r, page)

\* getBucketStats: bucket.list threw; catch returns { totalSize: 0, fileCount: 0 }
StatsListFail(r) ==
  /\ pc[r] = "stats"
  /\ LET st == [totalSize |-> 0, fileCount |-> 0]
     IN /\ stats' = [stats EXCEPT ![r] = st]
        /\ Continue(r, "stats", st)
  /\ calls' = [calls EXCEPT ![r] = Logged(@, Call("list", "stats", FALSE, NoKey))]
  /\ Outcome(FALSE)
  /\ UNCHANGED <<bucket, now, started, pageSize, listResponse, sms, rateLimitStore, fetchLog, app, req, allObjects, filesToDelete, delIdx,
                 cleanupResult, atStart>>

\* cleanupOldFiles returns to the handler
Return(r, result) ==
  /\ cleanupResult' = [cleanupResult EXCEPT ![r] = [result EXCEPT !.returned = TRUE]]
  /\ Continue(r, "cleanup", stats[r])

\* cleanupOldFiles: bucket.list returned `page`; after the last page the
\* objects are sorted and the files to delete selected
CleanupListPage(r, page) ==
  /\ pc[r] = "cleanup"
  /\ \E listed \in {allObjects[r] \o page.objects} :
     \E sorted \in {SortByUploaded(listed)} :
     \E plan \in {PlanCleanup(sorted, target[r].size, target[r].count)} :
     \E result \in {[returned |-> FALSE, deleted |-> Len(plan.filesToDelete),
                     remainingSize |-> plan.remainingSize,
                     remainingCount |-> plan.remainingCount]} :
        /\ calls' = [calls EXCEPT ![r] = Logged(@, Call("list", "cleanup", TRUE, NoKey))]
        /\ Outcome(TRUE)
        /\ IF page.cursor # NoCursor
           THEN /\ allObjects' = [allObjects EXCEPT ![r] = listed]
                /\ cursor' = [cursor EXCEPT ![r] = page.cursor]
                /\ UNCHANGED <<pc, resp, target, timestamp, filesToDelete, cleanupResult>>
           ELSE /\ allObjects' = [allObjects EXCEPT ![r] = sorted]
                /\ filesToDelete' = [filesToDelete EXCEPT ![r] = plan.filesToDelete]
                /\ IF plan.filesToDelete = <<>>
                   THEN Return(r, result)
                   ELSE /\ pc' = [pc EXCEPT ![r] = "delete"]
                        /\ cleanupResult' = [cleanupResult EXCEPT ![r] = result]
                        /\ cursor' = [cursor EXCEPT ![r] = NoCursor]
                        /\ UNCHANGED <<resp, target, timestamp>>
  /\ UNCHANGED <<bucket, now, started, pageSize, listResponse, sms, rateLimitStore, fetchLog, app, req, stats, delIdx, atStart>>

\* cleanupOldFiles: one bucket.list page returned by R2
CleanupList(r) == \E page \in {ListPage(bucket, cursor[r])} : CleanupListPage(r, page)

\* cleanupOldFiles: bucket.list threw; catch returns { deleted: 0, ... }
CleanupListFail(r) ==
  /\ pc[r] = "cleanup"
  /\ calls' = [calls EXCEPT ![r] = Logged(@, Call("list", "cleanup", FALSE, NoKey))]
  /\ Outcome(FALSE)
  /\ Return(r, NoResult)
  /\ UNCHANGED <<bucket, now, started, pageSize, listResponse, sms, rateLimitStore, fetchLog, app, req, stats, allObjects, filesToDelete,
                 delIdx, atStart>>

\* a delete loop that ends after its first delete
BatchEndsAtOnce(r, ok) == TRUE

\* a delete loop that a throwing delete ends
BatchEndsOnError(r, ok) == ~ok \/ delIdx[r] = Len(filesToDelete[r])

\* for (const key of filesToDelete) { try { delete } catch { log } }: the loop
\* ends after the last key, whether the delete threw or not
BatchEnds(r, ok) == delIdx[r] = Len(filesToDelete[r])

\* cleanupOldFiles: one bucket.delete(key), which succeeds or throws (logged)
DeleteFile(r) ==
  /\ pc[r] = "delete"
  /\ LET key == filesToDelete[r][delIdx[r]]
     IN \E ok \in BOOLEAN :
          /\ Outcome(ok)
          /\ bucket' = IF ok THEN {o \in bucket : o.key # key} ELSE bucket
          /\ calls' = [calls EXCEPT ![r] = Logged(@, Call("delete", "cleanup", ok, key))]
          /\ IF BatchEnds(r, ok)
             THEN Return(r, cleanupResult[r])
             ELSE UNCHANGED <<pc, resp, target, timestamp, cursor, cleanupResult>>
  /\ delIdx' = [delIdx EXCEPT ![r] = @ + 1]
  /\ UNCHANGED <<now, started, pageSize, listResponse, sms, rateLimitStore, fetchLog, app, req, stats, allObjects, filesToDelete, atStart>>

\* contentType || 'image/jpeg'
StoredContentType(contentType) ==
  IF contentType = "" THEN "image/jpeg" ELSE contentType

\* bucket.put(`bird-${timestamp}${ext}`, bytes): stores (replacing an object
\* of the same key) and answers 200, or throws and the handler answers 500
Put(r) ==
  /\ pc[r] = "put"
  /\ LET key == <<timestamp[r], req[r].ext>>
         obj == [key |-> key, size |-> req[r].fileSize, uploaded |-> now]
     IN \E ok \in BOOLEAN :
          /\ Outcome(ok)
          /\ bucket' = IF ok THEN {o \in bucket : o.key # key} \cup {obj} ELSE bucket
          /\ calls' = [calls EXCEPT ![r] = Logged(@, PutCall(ok, key, StoredContentType(req[r].contentType)))]
          /\ resp' = [resp EXCEPT ![r] =
                        IF ok THEN [Response(200) EXCEPT !.fileName = key]
                        ELSE Response(500)]
  /\ pc' = [pc EXCEPT ![r] = "done"]
  /\ UNCHANGED <<now, started, pageSize, listResponse, sms, rateLimitStore, fetchLog, app, req, stats, cursor, target, allObjects,
                 filesToDelete, delIdx, cleanupResult, timestamp, atStart>>

\* a millisecond passes
Tick ==
  /\ now < StartTime + MaxTime
  /\ now' = now + 1
  /\ UNCHANGED <<bucket, started, pageSize, listResponse, sms, rateLimitStore, fetchLog, app, pc, req, stats, cursor, target, allObjects,
                 filesToDelete, delIdx, cleanupResult, timestamp, resp, calls,
                 faults, atStart>>

Handle(r) ==
  \/ StatsList(r)
  \/ StatsListFail(r)
  \/ CleanupList(r)
  \/ CleanupListFail(r)
  \/ DeleteFile(r)
  \/ Put(r)

\* the page's uploads arrive at any time and interleave at every await
Next ==
  \/ \E r \in Reqs : StartPlain(r)
  \/ \E r \in Reqs : Handle(r)
  \/ Tick

Spec == Init /\ [][Next]_vars

\* requests are handled one at a time
NextAlone ==
  \/ \E r \in Reqs : StartAlone(r)
  \/ \E r \in Reqs : Handle(r)
  \/ Tick

SeqSpec == Init /\ [][NextAlone]_vars


\* ------------------------------------------- a bucket filled by uploads
\* the bucket holds only what earlier uploads, handled one at a time from an
\* empty bucket, have left: at most MAX_FILES_IN_BUCKET objects, none larger
\* than MAX_FILE_SIZE
InitUploaded ==
  /\ Init
  /\ Cardinality(bucket) <= MAX_FILES_IN_BUCKET
  /\ \A o \in bucket : o.size <= MAX_FILE_SIZE

UploadedSpec == InitUploaded /\ [][NextAlone]_vars

\* ------------------------------------------ a store that lists as it likes
\* bucket.list behind an adapter that keeps no promise about its pages: a
\* page is the page R2 would return, or an empty page with one of two cursors
\* that the adapter hands out again and again.
AdapterCursors == {<<0, 0>>, <<0, 1>>}

AdapterPages(b, cur) ==
  {ListPage(b, cur)} \cup {[objects |-> <<>>, cursor |-> c] : c \in AdapterCursors}

StatsListAdapter(r) == \E page \in AdapterPages(bucket, cursor[r]) : StatsListPage(r, page)

CleanupListAdapter(r) == \E page \in AdapterPages(bucket, cursor[r]) : CleanupListPage(r, page)

HandleAdapter(r) ==
  \/ StatsListAdapter(r)
  \/ StatsListFail(r)
  \/ CleanupListAdapter(r)
  \/ CleanupListFail(r)
  \/ DeleteFile(r)
  \/ Put(r)

NextAdapter ==
  \/ \E r \in Reqs : StartPlainAlone(r)
  \/ \E r \in Reqs : HandleAdapter(r)
  \/ Tick

\* the runtime resumes every request whose awaited bucket call has settled
InitAdapter == Init /\ Cardinality(bucket) <= MaxAdapterFiles

AdapterSpec ==
  /\ InitAdapter /\ [][NextAdapter]_vars
  /\ \A r \in Reqs : /\ WF_vars(StatsListAdapter(r))
                      /\ WF_vars(CleanupListAdapter(r))
                      /\ WF_vars(DeleteFile(r))
                      /\ WF_vars(Put(r))


\* ------------------------------------------- cleanupOldFiles on its own
\* cleanupOldFiles(bucket, targetSize, targetFileCount) called on every small
\* bucket with every pair of targets (sizes in thousandths of a unit)
PlanSizes == {1, 100}
PlanTargetSizes == {0, 1500, 150000, 201000}

PlanBuckets ==
  UNION {{MkBucket(n, sz, up) : sz \in [1..n -> PlanSizes], up \in [1..n -> 1..MaxPlanTime]} :
           n \in 0..MaxPlanFiles}

InitPlan ==
  /\ bucket \in PlanBuckets
  /\ now = StartTime
  /\ started = 1
  /\ faults = 0
  /\ pc = [r \in Reqs |-> IF r = 1 THEN "cleanup" ELSE "idle"]
  /\ req = [r \in Reqs |-> IF r = 1 THEN PlainBody(1) ELSE NoBody]
  /\ stats = [r \in Reqs |-> [totalSize |-> 0, fileCount |-> 0]]
  /\ cursor = [r \in Reqs |-> NoCursor]
  /\ \E ts \in PlanTargetSizes, tc \in 0..MaxPlanFiles :
       target = [r \in Reqs |-> IF r = 1 THEN [size |-> ts, count |-> tc]
                                ELSE [size |-> 0, count |-> 0]]
  /\ allObjects = [r \in Reqs |-> <<>>]
  /\ filesToDelete = [r \in Reqs |-> <<>>]
  /\ delIdx = [r \in Reqs |-> 1]
  /\ cleanupResult = [r \in Reqs |-> NoResult]
  /\ timestamp = [r \in Reqs |-> 0]
  /\ resp = [r \in Reqs |-> NoResponse]
  /\ calls = [r \in Reqs |-> <<>>]
  /\ atStart = [r \in Reqs |-> IF r = 1 THEN bucket ELSE {}]
  /\ pageSize = PageSize
  /\ listResponse = NoListResponse
  /\ sms = NoSms
  /\ rateLimitStore = NoLimits
  /\ fetchLog = <<>>
  /\ app = NoApp

NextPlan ==
  \/ \E r \in Reqs : CleanupList(r)
  \/ \E r \in Reqs : CleanupListFail(r)
  \/ \E r \in Reqs : DeleteFile(r)

PlanSpec == InitPlan /\ [][NextPlan]_vars

\* cleanupOldFiles behind a store that returns the objects of a page in any
\* order
Orderings(s) ==
  {p \in [1..Len(s) -> {s[i] : i \in 1..Len(s)}] :
     \A i \in 1..Len(s) : \E j \in 1..Len(s) : p[j] = s[i]}

AnyOrderPages(b, cur) ==
  {[objects |-> p, cursor |-> ListPage(b, cur).cursor] :
     p \in Orderings(ListPage(b, cur).objects)}

CleanupListAnyOrder(r) ==
  \E page \in AnyOrderPages(bucket, cursor[r]) : CleanupListPage(r, page)

NextAnyOrder ==
  \/ \E r \in Reqs : CleanupListAnyOrder(r)
  \/ \E r \in Reqs : CleanupListFail(r)
  \/ \E r \in Reqs : DeleteFile(r)

AnyOrderSpec == InitPlan /\ [][NextAnyOrder]_vars

\* -------------------------------------------- getBucketStats on its own
\* getBucketStats(bucket) called on buckets of up to MaxStatsFiles objects;
\* an object without a size counts as 0 (obj.size || 0)
StatsSizes == {0, 1}

StatsBuckets ==
  UNION {{MkBucket(n, sz, [i \in 1..n |-> 1]) :
            sz \in {f \in [1..n -> StatsSizes] : Monotone(f, n)}} :
           n \in 0..MaxStatsFiles}

InitStats ==
  /\ bucket \in StatsBuckets
  /\ now = StartTime
  /\ started = 1
  /\ faults = 0
  /\ pc = [r \in Reqs |-> IF r = 1 THEN "stats" ELSE "idle"]
  /\ req = [r \in Reqs |-> IF r = 1 THEN PlainBody(1) ELSE NoBody]
  /\ stats = [r \in Reqs |-> [totalSize |-> 0, fileCount |-> 0]]
  /\ cursor = [r \in Reqs |-> NoCursor]
  /\ target = [r \in Reqs |-> [size |-> 0, count |-> 0]]
  /\ allObjects = [r \in Reqs |-> <<>>]
  /\ filesToDelete = [r \in Reqs |-> <<>>]
  /\ delIdx = [r \in Reqs |-> 1]
  /\ cleanupResult = [r \in Reqs |-> NoResult]
  /\ timestamp = [r \in Reqs |-> 0]
  /\ resp = [r \in Reqs |-> NoResponse]
  /\ calls = [r \in Reqs |-> <<>>]
  /\ atStart = [r \in Reqs |-> IF r = 1 THEN bucket ELSE {}]
  /\ pageSize \in 1..PageSize
  /\ listResponse = NoListResponse
  /\ sms = NoSms
  /\ rateLimitStore = NoLimits
  /\ fetchLog = <<>>
  /\ app = NoApp

NextStats ==
  \/ \E r \in Reqs : StatsList(r)
  \/ \E r \in Reqs : StatsListFail(r)

StatsSpec == InitStats /\ [][NextStats]_vars

\* two calls of getBucketStats on the same bucket, nothing put or deleted
InitTwoStats ==
  /\ bucket \in StatsBuckets
  /\ now = StartTime
  /\ started = NumReq
  /\ faults = 0
  /\ pc = [r \in Reqs |-> "stats"]
  /\ req = [r \in Reqs |-> PlainBody(1)]
  /\ stats = [r \in Reqs |-> [totalSize |-> 0, fileCount |-> 0]]
  /\ cursor = [r \in Reqs |-> NoCursor]
  /\ target = [r \in Reqs |-> [size |-> 0, count |-> 0]]
  /\ allObjects = [r \in Reqs |-> <<>>]
  /\ filesToDelete = [r \in Reqs |-> <<>>]
  /\ delIdx = [r \in Reqs |-> 1]
  /\ cleanupResult = [r \in Reqs |-> NoResult]
  /\ timestamp = [r \in Reqs |-> 0]
  /\ resp = [r \in Reqs |-> NoResponse]
  /\ calls = [r \in Reqs |-> <<>>]
  /\ atStart = [r \in Reqs |-> bucket]
  /\ pageSize \in 1..PageSize
  /\ listResponse = NoListResponse
  /\ sms = NoSms
  /\ rateLimitStore = NoLimits
  /\ fetchLog = <<>>
  /\ app = NoApp

TwoStatsSpec == InitTwoStats /\ [][NextStats]_vars

\* ------------------------------------------------------ handleListImages
\* .sort((a, b) => dateB - dateA): a stable sort, newest first.  The object
\* at position i goes behind the newer ones and the equally new listed before.
NewestFirstPosition(s, i) ==
  1 + Cardinality({j \in 1..Len(s) :
                     \/ s[j].uploaded > s[i].uploaded
                     \/ s[j].uploaded = s[i].uploaded /\ j < i})

SortNewestFirst(s) ==
  [k \in 1..Len(s) |-> s[CHOOSE i \in 1..Len(s) : NewestFirstPosition(s, i) = k]]

\* .slice(0, 4)
Slice4(s) == SubSeq(s, 1, Min(4, Len(s)))

\* .map(obj => ({ Key: obj.key, LastModified: obj.uploaded }))
KeyAndDate(s) == [i \in 1..Len(s) |-> [Key |-> s[i].key, LastModified |-> s[i].uploaded]]

\* the images of the response: one bucket.list(), sorted, sliced, mapped
sortedObjects(result) == KeyAndDate(Slice4(SortNewestFirst(result.objects)))

\* GET /list: bucket.list() returns and the images are sent, or it throws (500)
ListImages ==
  /\ listResponse = NoListResponse
  /\ \E ok \in BOOLEAN :
       /\ Outcome(ok)
       /\ listResponse' =
            IF ok THEN [status |-> 200, images |-> sortedObjects(ListPage(bucket, NoCursor))]
            ELSE [status |-> 500, images |-> <<>>]
  /\ UNCHANGED <<bucket, now, started, pc, req, stats, cursor, target, allObjects,
                 filesToDelete, delIdx, cleanupResult, timestamp, resp, calls,
                 atStart, pageSize, sms, rateLimitStore, fetchLog, app>>

\* GET /list on every small bucket, for every upload order of its objects
\* and for pages of every size
ListBuckets ==
  UNION {{MkBucket(n, [i \in 1..n |-> 1], up) : up \in [1..n -> 1..MaxListTime]} :
           n \in 0..MaxListFiles}

InitList ==
  /\ bucket \in ListBuckets
  /\ now = StartTime
  /\ started = 0
  /\ faults = 0
  /\ pageSize \in 1..(MaxListFiles + 1)
  /\ IdleLocals

NextList == ListImages

ListSpec == InitList /\ [][NextList]_vars

\* --------------------------------------------------------- handleSendSMS
\* A mediaUrl is a string: empty, not a URL at all, or a URL with a host and
\* a pathname /<dir>/<key>.
Malformed == [text |-> "bird.png", host |-> "", dir |-> "", key |-> NoKey]
Url(host, dir, key) == [text |-> "url", host |-> host, dir |-> dir, key |-> key]

\* the keys the URLs name: the oldest object of the bucket at the start, the
\* first upload of the behaviour, and a key no object ever has
MediaKeys == {<<-1, 1>>, <<StartTime, 1>>, <<0, 1>>}

ImageUrls == {Url("worker", "image", k) : k \in MediaKeys}

MediaUrls ==
  {NoUrl, Malformed, Url("worker", "list", NoKey), Url("elsewhere", "image", <<0, 1>>)}
    \cup ImageUrls

Recipients == {"", ALLOWED_SMS_RECIPIENT, "+15555550100"}

\* the requests of the page (the allowed recipient, the URL of an image of
\* the worker), the requests with one thing wrong, and the requests to
\* another recipient with every mediaUrl
SmsBodies ==
  {SmsBody(TRUE, ALLOWED_SMS_RECIPIENT, u) : u \in MediaUrls}
    \cup {SmsBody(TRUE, p, u) : p \in Recipients, u \in {NoUrl, Url("worker", "image", <<-1, 1>>)}}
    \cup {SmsBody(TRUE, "+15555550100", u) : u \in MediaUrls}
    \cup {SmsBody(FALSE, ALLOWED_SMS_RECIPIENT, Url("worker", "image", <<-1, 1>>))}

\* what Twilio answers to the fetch: ok, an error status, or the fetch throws
TwilioResponses == {200, 400, 0}

\* a handler that lets every recipient through
AnyRecipient(recipientPhoneNumber) == FALSE

\* recipientPhoneNumber !== ALLOWED_SMS_RECIPIENT
OtherRecipient(recipientPhoneNumber) == recipientPhoneNumber # ALLOWED_SMS_RECIPIENT

\* new URL(mediaUrl) throws, or its pathname does not start with '/image/'
InvalidMediaUrl(mediaUrl) == mediaUrl.text # "url" \/ mediaUrl.dir # "image"

\* the status of the Response, in the order of the handler's checks; 0 when
\* the request passes them all
SmsRefusal(body) ==
  IF ~body.configured THEN 500
  ELSE IF body.recipientPhoneNumber = "" \/ body.mediaUrl.text = "" THEN 400
  ELSE IF OtherRecipient(body.recipientPhoneNumber) THEN 403
  ELSE IF InvalidMediaUrl(body.mediaUrl) THEN 400
  ELSE 0

\* formData: the message handed to Twilio
formData(body) == [To |-> body.recipientPhoneNumber, MediaUrl |-> body.mediaUrl]

\* POST /sms, from the request to its Response
SendSMS ==
  /\ sms = NoSms
  /\ \A r \in Reqs : Idle(r)
  /\ \E body \in SmsBodies, twilioResponse \in TwilioResponses :
       sms' = IF SmsRefusal(body) # 0
              THEN [body |-> body, status |-> SmsRefusal(body), twilio |-> <<>>,
                    bucket |-> bucket]
              ELSE [body |-> body,
                    status |-> IF twilioResponse = 0 THEN 500 ELSE twilioResponse,
                    twilio |-> <<formData(body)>>,
                    bucket |-> bucket]
  /\ UNCHANGED <<bucket, now, started, pc, req, stats, cursor, target, allObjects,
                 filesToDelete, delIdx, cleanupResult, timestamp, resp, calls,
                 faults, atStart, pageSize, listResponse, rateLimitStore, fetchLog, app>>

\* uploads one at a time, and a POST /sms request at any moment between them
NextSms ==
  \/ \E r \in Reqs : StartPlainAlone(r)
  \/ \E r \in Reqs : Handle(r)
  \/ Tick
  \/ SendSMS

InitSms == Init /\ Cardinality(bucket) = MaxInitFiles

SmsSpec == InitSms /\ [][NextSms]_vars

\* ------------------------------------------- worker.fetch (rate limiting)
\* a check that lets one request more through
LimitExceededLate(limit) == limit.count > RATE_LIMIT_REQUESTS

\* limit.count >= RATE_LIMIT_REQUESTS
LimitExceeded(limit) == limit.count >= RATE_LIMIT_REQUESTS

\* checkRateLimit(ip) at time t: whether the request is let through, and the
\* store afterwards
checkRateLimit(store, ip, t) ==
  IF store[ip] = NoLimit \/ t > store[ip].resetTime
  THEN [allowed |-> TRUE,
        store |-> [store EXCEPT ![ip] = [count |-> 1, resetTime |-> t + RATE_LIMIT_WINDOW]]]
  ELSE IF LimitExceeded(store[ip])
  THEN [allowed |-> FALSE, store |-> store]
  ELSE [allowed |-> TRUE, store |-> [store EXCEPT ![ip].count = @ + 1]]

\* the requests: a preflight, a request for an image, a request to one of
\* the other routes
Requests ==
  {[method |-> "OPTIONS", path |-> "/upload"], [method |-> "GET", path |-> "/image/"],
   [method |-> "POST", path |-> "/upload"]}

\* worker.fetch up to the routing: the preflight is answered at once, the
\* routes other than /image/ pass checkRateLimit or are answered 429, and the
\* request is handed to its handler (status 0 here: the handler's answer)
Fetch(ip, request) ==
  /\ Len(fetchLog) < MaxFetches
  /\ \E limited \in {request.method # "OPTIONS" /\ request.path # "/image/"} :
     \E check \in {IF limited THEN checkRateLimit(rateLimitStore, ip, now)
                    ELSE [allowed |-> TRUE, store |-> rateLimitStore]} :
       /\ rateLimitStore' = check.store
       /\ fetchLog' = Append(fetchLog,
            [ip |-> ip, at |-> now, limited |-> limited,
             status |-> IF request.method = "OPTIONS" THEN 200
                        ELSE IF ~check.allowed THEN 429 ELSE 0,
             handled |-> request.method # "OPTIONS" /\ check.allowed,
             before |-> rateLimitStore[ip], after |-> check.store[ip]])
  /\ UNCHANGED <<bucket, now, started, pc, req, stats, cursor, target, allObjects,
                 filesToDelete, delIdx, cleanupResult, timestamp, resp, calls,
                 faults, atStart, pageSize, listResponse, sms, app>>

\* a millisecond passes
RateTick ==
  /\ now < StartTime + MaxRateTime
  /\ now' = now + 1
  /\ UNCHANGED <<bucket, started, pc, req, stats, cursor, target, allObjects,
                 filesToDelete, delIdx, cleanupResult, timestamp, resp, calls,
                 faults, atStart, pageSize, listResponse, sms, rateLimitStore,
                 fetchLog, app>>

InitRate ==
  /\ bucket = {}
  /\ now = StartTime
  /\ started = 0
  /\ faults = 0
  /\ pageSize = PageSize
  /\ IdleLocals

NextRate ==
  \/ \E ip \in Clients, request \in Requests : Fetch(ip, request)
  \/ RateTick

RateSpec == InitRate /\ [][NextRate]_vars

\* ------------------------------------------------------- the page (App.jsx)
\* the statuses the worker answers to POST /upload and to POST /sms; the
\* body of a Response is JSON or not (an error page of the network)
UploadStatuses == {200, 400, 413, 429, 500, 507}
SmsStatuses == {200, 400, 403, 429, 500}
AppResponses(statuses) == {[status |-> st, json |-> j] : st \in statuses, j \in BOOLEAN}

\* response.ok
IsOk(response) == response.status >= 200 /\ response.status <= 299

FailedUpload == "Failed to upload image. Please try again."

\* only the page moves
AppOnly ==
  UNCHANGED <<bucket, now, started, pc, req, stats, cursor, target, allObjects,
              filesToDelete, delIdx, cleanupResult, timestamp, resp, calls,
              faults, atStart, pageSize, listResponse, sms, rateLimitStore, fetchLog>>

\* the user picks a photo and the classification offers it for sending
\* (the file input is disabled while sending)
SelectImage ==
  /\ app.pc = "idle" /\ ~app.sending /\ ~app.birdImage
  /\ app' = [app EXCEPT !.birdImage = TRUE, !.message = ""]
  /\ AppOnly

\* handleBirdSend -> uploadToR2: setSending(true), canvas.toBlob(callback).
\* The send button is rendered only when birdImage && !sending.
StartSend ==
  /\ app.pc = "idle" /\ app.birdImage /\ ~app.sending
  /\ app.sends < MaxSends
  /\ app' = [app EXCEPT !.sending = TRUE, !.pc = "toBlob", !.sends = @ + 1]
  /\ AppOnly

\* the toBlob callback: with a blob the FileReader starts; without one
\* readAsDataURL throws inside the try and the catch ends the send
ToBlob ==
  /\ app.pc = "toBlob"
  /\ \E blob \in BOOLEAN :
       app' = IF blob THEN [app EXCEPT !.pc = "reading"]
              ELSE [app EXCEPT !.pc = "idle", !.message = FailedUpload, !.sending = FALSE]
  /\ AppOnly

\* reader.onloadend: with a result the upload is fetched; without one
\* reader.result.split throws in the callback, which nothing catches
Loadend ==
  /\ app.pc = "reading"
  /\ \E result \in BOOLEAN :
       app' = [app EXCEPT !.pc = IF result THEN "upload" ELSE "stopped"]
  /\ AppOnly

\* await fetch(`${workerUrl}/upload`): a Response, or the fetch rejects and
\* the rejection leaves the onloadend callback (no try around the await)
UploadSettles ==
  /\ app.pc = "upload"
  /\ \/ app' = [app EXCEPT !.pc = "stopped"]
     \/ \E response \in AppResponses(UploadStatuses) :
          app' = [app EXCEPT !.response = response,
                             !.pc = IF IsOk(response) THEN "uploadData" ELSE "uploadError"]
  /\ AppOnly

\* await response.json() of the upload: it throws on a body that is not
\* JSON (uncaught); if (!response.ok) the message is set and the send ends;
\* otherwise sendSMS(imageUrl) is called
UploadBody ==
  /\ app.pc \in {"uploadData", "uploadError"}
  /\ app' = IF ~app.response.json THEN [app EXCEPT !.pc = "stopped"]
            ELSE IF app.pc = "uploadError"
            THEN [app EXCEPT !.pc = "idle", !.message = FailedUpload, !.sending = FALSE]
            ELSE [app EXCEPT !.pc = "sms"]
  /\ AppOnly

\* sendSMS: await fetch(`${workerUrl}/sms`) rejects (catch: alert,
\* setSending(false)), or answers ok (alert, resetForm) or not ok
SmsSettles ==
  /\ app.pc = "sms"
  /\ \/ app' = [app EXCEPT !.pc = "idle", !.alert = "An error occurred. Please try again.",
                            !.sending = FALSE]
     \/ \E response \in AppResponses(SmsStatuses) :
          app' = IF IsOk(response)
                 THEN [app EXCEPT !.response = response, !.pc = "idle",
                                  !.alert = "The bird has been sent to Ryan, you're a hero!",
                                  !.birdImage = FALSE, !.message = "", !.sending = FALSE]
                 ELSE [app EXCEPT !.response = response, !.pc = "smsError"]
  /\ AppOnly

\* await response.json().catch(() => ({})), alert, setSending(false)
SmsErrorBody ==
  /\ app.pc = "smsError"
  /\ app' = [app EXCEPT !.pc = "idle", !.alert = "Failed to send message. Try again!",
                        !.sending = FALSE]
  /\ AppOnly

NextApp ==
  \/ SelectImage
  \/ StartSend
  \/ ToBlob
  \/ Loadend
  \/ UploadSettles
  \/ UploadBody
  \/ SmsSettles
  \/ SmsErrorBody

\* every callback the browser holds is run and every fetch settles
AppSpec ==
  /\ InitRate
  /\ [][NextApp]_vars
  /\ WF_vars(ToBlob)
  /\ WF_vars(Loadend)
  /\ WF_vars(UploadSettles)
  /\ WF_vars(UploadBody)
  /\ WF_vars(SmsSettles)
  /\ WF_vars(SmsErrorBody)

\* ------------------------------------------------- what a request has done
Range(s) == {s[i] : i \in 1..Len(s)}

CallsOf(r, op, by) == {c \in Range(calls[r]) : c.op = op /\ c.by = by}

\* cleanupOldFiles was entered (its first statement is a bucket.list)
CleanupCalled(r) == CallsOf(r, "list", "cleanup") # {}

\* cleanupOldFiles listed the whole bucket and selected the files to delete;
\* allObjects[r] is then the listed inventory
Planned(r) ==
  /\ pc[r] \in {"delete", "put", "done"}
  /\ CleanupCalled(r)
  /\ \A c \in CallsOf(r, "list", "cleanup") : c.ok

PutIssued(r) == CallsOf(r, "put", "upload") # {}
DeleteIssued(r) == CallsOf(r, "delete", "cleanup") # {}
StatsFailed(r) == \E c \in CallsOf(r, "list", "stats") : ~c.ok

\* the listed inventory, and what is left of it without the keys of ks
Listed(r) == Range(allObjects[r])
Without(r, ks) == {o \in Listed(r) : o.key \notin Range(ks)}
MeetsTargets(r, ks) ==
  /\ SumSizes(Without(r, ks)) * 1000 <= target[r].size
  /\ Cardinality(Without(r, ks)) <= target[r].count


\* ----------------------------------------------------------- the plan
Selected(r) == filesToDelete[r]
UploadedOf(r, key) == (CHOOSE o \in Listed(r) : o.key = key).uploaded

\* the inventory of the scenario: k1, k2, k3 of size 100 uploaded at 1, 2, 3
ExampleInventory == MkBucket(3, [i \in 1..3 |-> 100], [i \in 1..3 |-> i])
ExampleTargets == [size |-> 150000, count |-> 3]
ExamplePlan == << <<-3, 1>>, <<-2, 1>> >>

\* C6: the selected keys are the shortest oldest-first prefix of the listed
\* inventory whose removal meets both targets: removing them meets the
\* targets, removing any shorter prefix of them leaves the size or the count
\* over its target, nothing is selected when the targets already hold, the
\* keys are selected in order of age; the scenario (3 x 100, targets 150
\* and 3) selects k1, k2 and leaves size 100.
EvictionMinimality ==
  \A r \in Reqs : Planned(r) =>
    LET sel == Selected(r)
        k == Len(sel)
    IN /\ MeetsTargets(r, sel)
       /\ \A j \in 0..(k - 1) : ~MeetsTargets(r, SubSeq(sel, 1, j))
       /\ MeetsTargets(r, <<>>) => k = 0
       /\ \A i \in 1..k : \E o \in Listed(r) : o.key = sel[i]
       /\ \A i, j \in 1..k : i < j =>
            /\ sel[i] # sel[j]
            /\ UploadedOf(r, sel[i]) <= UploadedOf(r, sel[j])
       /\ (Listed(r) = ExampleInventory /\ target[r] = ExampleTargets) =>
            /\ sel = ExamplePlan
            /\ cleanupResult[r].remainingSize = 100

\* the scenario has been planned
EvictionMinimalityWitness ==
  \E r \in Reqs :
    /\ Planned(r)
    /\ Listed(r) = ExampleInventory
    /\ target[r] = ExampleTargets
    /\ Selected(r) = ExamplePlan

\* C7: in every plan no object that is left is older than an object that is
\* selected for deletion.
OldestFirst ==
  \A r \in Reqs : Planned(r) =>
    \A a, c \in Listed(r) :
      (a.key \in Range(Selected(r)) /\ c.key \notin Range(Selected(r)))
        => ~(c.uploaded < a.uploaded)

\* a plan that selects an object the store lists after a younger one it keeps
OldestFirstWitness ==
  \E r \in Reqs :
    /\ Planned(r)
    /\ \E a, c \in Listed(r) :
         /\ a.key \in Range(Selected(r))
         /\ c.key \notin Range(Selected(r))
         /\ KeyLess(c.key, a.key)
         /\ a.uploaded < c.uploaded

\* C8: removing exactly the selected keys from the listed inventory leaves
\* size <= targetSize and count <= targetFileCount, and these two values are
\* the remainingSize and remainingCount of cleanupOldFiles' result.
PlanReachesTargets ==
  \A r \in Reqs : Planned(r) =>
    LET left == Without(r, Selected(r))
    IN /\ SumSizes(left) * 1000 <= target[r].size
       /\ Cardinality(left) <= target[r].count
       /\ cleanupResult[r].remainingSize = SumSizes(left)
       /\ cleanupResult[r].remainingCount = Cardinality(left)

\* cleanupOldFiles has returned a plan that removes some objects, keeps
\* others, and started with both targets unmet
PlanReachesTargetsWitness ==
  \E r \in Reqs :
    /\ Planned(r)
    /\ cleanupResult[r].returned
    /\ Selected(r) # <<>>
    /\ Without(r, Selected(r)) # {}
    /\ SumSizes(Listed(r)) * 1000 > target[r].size
    /\ Cardinality(Listed(r)) > target[r].count


\* ------------------------------------------------------- the admission
ProjectedSize(r) == stats[r].totalSize + req[r].fileSize
ProjectedCount(r) == stats[r].fileCount + 1

\* the request holds its stats and has taken the capacity decision
Decided(r) ==
  \/ pc[r] \in {"cleanup", "delete", "put"}
  \/ pc[r] = "done" /\ resp[r].status \notin {400, 413}

\* the request passed the capacity check
Admitted(r) == Decided(r) /\ resp[r].status # 507

CleanupInvoked(r) == pc[r] \in {"cleanup", "delete"} \/ CleanupCalled(r)

AllCallsOk(r) == \A c \in Range(calls[r]) : c.ok

Abs(x) == IF x < 0 THEN -x ELSE x

\* C1: handled one at a time and starting within the limit, after the put of
\* an upload that was not rejected the bucket's total size is at most
\* MAX_BUCKET_SIZE.
NoSilentOvershoot ==
  \A r \in Reqs :
    (pc[r] = "done" /\ resp[r].status = 200 /\ SumSizes(atStart[r]) <= MAX_BUCKET_SIZE)
      => TotalSize <= MAX_BUCKET_SIZE

\* C2: an upload is answered 507 exactly when stats.totalSize + fileSize >
\* MAX_BUCKET_SIZE, whatever the object count; the 507 carries the current
\* and the maximum size (GB, two decimals).
RejectionThreshold ==
  \A r \in Reqs :
    /\ resp[r].status = 507 =>
         /\ pc[r] = "done"
         /\ ProjectedSize(r) > MAX_BUCKET_SIZE
         /\ 2 * Abs(resp[r].currentSize * GiB - 100 * stats[r].totalSize) <= GiB
         /\ 2 * Abs(resp[r].maxSize * GiB - 100 * MAX_BUCKET_SIZE) <= GiB
    /\ (Decided(r) /\ ProjectedSize(r) > MAX_BUCKET_SIZE) => resp[r].status = 507

\* an upload rejected for one unit too many
RejectionThresholdWitness ==
  \E r \in Reqs :
    /\ resp[r].status = 507
    /\ ProjectedSize(r) = MAX_BUCKET_SIZE + 1
    /\ stats[r].totalSize = SumSizes(atStart[r])

\* C3: a request whose stats listing failed issues no put.
FailClosedAdmission ==
  \A r \in Reqs : StatsFailed(r) => ~PutIssued(r)

\* C4: an upload rejected for capacity has issued no put and no delete, and
\* the bucket is as it was when the request arrived.
RejectedChangesNothing ==
  \A r \in Reqs :
    resp[r].status = 507 =>
      /\ ~PutIssued(r)
      /\ ~DeleteIssued(r)
      /\ bucket = atStart[r]

\* an upload rejected on a bucket that holds objects
RejectedChangesNothingWitness ==
  \E r \in Reqs :
    /\ pc[r] = "done"
    /\ resp[r].status = 507
    /\ bucket # {}
    /\ calls[r] # <<>>

\* C5: for an upload that passed the capacity check cleanupOldFiles is
\* invoked iff projectedSize > MAX_BUCKET_SIZE * 0.85 or projectedCount >
\* MAX_FILES_IN_BUCKET, with targetSize = MAX_BUCKET_SIZE * 0.85 * 0.8 and
\* targetCount = floor(MAX_FILES_IN_BUCKET * 0.8); otherwise the upload
\* issues no delete.
CleanupTrigger ==
  \A r \in Reqs : Admitted(r) =>
    LET cond == \/ ProjectedSize(r) * 100 > MAX_BUCKET_SIZE * CLEANUP_THRESHOLD
                \/ ProjectedCount(r) > MAX_FILES_IN_BUCKET
    IN /\ CleanupInvoked(r) <=> cond
       /\ CleanupInvoked(r) =>
            /\ target[r].size = MAX_BUCKET_SIZE * CLEANUP_THRESHOLD * 8
            /\ target[r].count * 10 <= MAX_FILES_IN_BUCKET * 8
            /\ MAX_FILES_IN_BUCKET * 8 < (target[r].count + 1) * 10
       /\ ~cond => ~DeleteIssued(r)

\* an upload stored after a cleanup that only the object count triggered
CleanupTriggerWitness ==
  \E r \in Reqs :
    /\ pc[r] = "done"
    /\ resp[r].status = 200
    /\ CleanupCalled(r)
    /\ ProjectedSize(r) * 100 <= MAX_BUCKET_SIZE * CLEANUP_THRESHOLD
    /\ \E c \in CallsOf(r, "delete", "cleanup") : c.ok

\* C9: two uploads handled concurrently on a bucket within the limit, neither
\* rejected: after both puts the total size exceeds MAX_BUCKET_SIZE by at
\* most the size of one of the two uploaded objects.
BoundedRace ==
  \A r, q \in Reqs :
    (/\ r # q
     /\ pc[r] = "done" /\ resp[r].status = 200
     /\ pc[q] = "done" /\ resp[q].status = 200
     /\ SumSizes(atStart[r]) <= MAX_BUCKET_SIZE
     /\ SumSizes(atStart[q]) <= MAX_BUCKET_SIZE)
      => \/ TotalSize <= MAX_BUCKET_SIZE + req[r].fileSize
         \/ TotalSize <= MAX_BUCKET_SIZE + req[q].fileSize

\* C10: an upload request that arrives while the bucket is over the hard
\* limit, and whose bucket calls all succeed, runs a cleanup pass and leaves
\* the bucket within the limit.
OvershootCorrected ==
  \A r \in Reqs :
    (/\ pc[r] = "done"
     /\ resp[r].status \notin {400, 413}
     /\ SumSizes(atStart[r]) > MAX_BUCKET_SIZE
     /\ AllCallsOk(r)
     /\ \A q \in Reqs : Idle(q))
      => /\ CleanupCalled(r)
         /\ TotalSize <= MAX_BUCKET_SIZE

\* ------------------------------------------------------- the listing loops
\* C11: whatever the store's adapter returns, a request that is in a listing
\* loop (getBucketStats' or cleanupOldFiles') eventually leaves it, and every
\* upload request eventually has its response.
ListingTerminates ==
  \A r \in Reqs : (pc[r] # "idle") ~> (pc[r] = "done")

\* getBucketStats has returned and none of its list calls threw
StatsReturned(r) ==
  /\ pc[r] \notin {"idle", "stats"}
  /\ CallsOf(r, "list", "stats") # {}
  /\ ~StatsFailed(r)

\* C12: when every list call succeeds, getBucketStats returns the sum of the
\* sizes of all objects of the bucket as totalSize and their number as
\* fileCount, and it has followed the cursor to the last page.
CompleteInventory ==
  \A r \in Reqs : StatsReturned(r) =>
    /\ stats[r].totalSize = SumSizes(bucket)
    /\ stats[r].fileCount = Cardinality(bucket)
    /\ Len(calls[r]) * pageSize >= Cardinality(bucket)

\* ------------------------------------------------------ the delete batch
\* the keys of the delete calls of the request, in the order of the calls
DeleteKeys(r) ==
  LET ds == SelectSeq(calls[r], LAMBDA c : c.op = "delete")
  IN [i \in 1..Len(ds) |-> ds[i].key]

\* C13: the keys selected by a cleanup pass are each attempted exactly once,
\* in order, whether or not a delete throws; when the pass is over all of
\* them have been attempted, and the request ends with its put issued.
BestEffortDeletion ==
  \A r \in Reqs : Planned(r) =>
    /\ pc[r] = "delete" => DeleteKeys(r) = SubSeq(filesToDelete[r], 1, delIdx[r] - 1)
    /\ pc[r] # "delete" => DeleteKeys(r) = filesToDelete[r]
    /\ pc[r] = "done" => PutIssued(r)

\* a stored upload whose cleanup had a delete throw before its last delete
BestEffortDeletionWitness ==
  \E r \in Reqs :
    /\ pc[r] = "done"
    /\ resp[r].status = 200
    /\ Planned(r)
    /\ \E i \in 1..Len(calls[r]) :
         /\ calls[r][i].op = "delete" /\ ~calls[r][i].ok
         /\ \E j \in (i + 1)..Len(calls[r]) : calls[r][j].op = "delete"

\* the number of delete calls of the request that succeeded
DeletesDone(r) == Len(SelectSeq(calls[r], LAMBDA c : c.op = "delete" /\ c.ok))

\* C14: the result of a cleanup pass reports as deleted the number of keys
\* whose delete call succeeded.
ReportsActualDeletes ==
  \A r \in Reqs :
    (Planned(r) /\ cleanupResult[r].returned) => cleanupResult[r].deleted = DeletesDone(r)

\* C15: starting from a bucket filled by uploads and handling the uploads one
\* at a time, the bucket never holds more than MAX_FILES_IN_BUCKET objects.
MaximumFiles == Cardinality(bucket) <= MAX_FILES_IN_BUCKET

\* ------------------------------------------------------- the validation
\* the request has been received
Received(r) == pc[r] # "idle"

\* the request was answered by one of the checks that precede the bucket
Refused(r) == pc[r] = "done" /\ resp[r].status \in {400, 413}

\* the objects the upload endpoint has written (bird-<timestamp><ext>)
Uploaded == {o \in bucket : o.key[1] >= StartTime}

\* the request passes every check that precedes the size check
OtherwiseValid(r) ==
  /\ req[r].contentLength <= MAX_REQUEST_SIZE
  /\ req[r].fileName # 0
  /\ req[r].fileData = "base64"
  /\ isValidImageType(req[r].contentType, req[r].fileName)

FailsValidation(r) ==
  \/ req[r].fileName = 0
  \/ req[r].fileData = ""
  \/ ~isValidImageType(req[r].contentType, req[r].fileName)
  \/ req[r].fileData = "!"
  \/ req[r].fileSize > MAX_FILE_SIZE

\* C17: an upload request that fails validation (fileName or fileData
\* missing, type not allowed, fileData not base64, decoded size over the
\* limit) is answered with a client error and makes no list, delete or put
\* call on the bucket, which is left as it was.
ValidationPrecedesCore ==
  \A r \in Reqs :
    (Received(r) /\ FailsValidation(r)) =>
      /\ pc[r] = "done"
      /\ resp[r].status \in 400..499
      /\ calls[r] = <<>>
      /\ bucket = atStart[r]

\* an upload whose fileData is not base64 has been refused
ValidationPrecedesCoreWitness ==
  \E r \in Reqs :
    /\ pc[r] = "done"
    /\ req[r].fileData = "!"
    /\ resp[r].status = 400
    /\ bucket # {}

\* ------------------------------------------------------------ GET /list
Images == listResponse.images

\* C18: GET /list answers with the 12 most recently uploaded objects of the
\* bucket, all of them when the bucket holds fewer, newest first.
RecentListing ==
  listResponse.status = 200 =>
    /\ Len(Images) = Min(12, Cardinality(bucket))
    /\ \A i \in 1..Len(Images) :
         \E o \in bucket : o.key = Images[i].Key /\ o.uploaded = Images[i].LastModified
    /\ \A i, j \in 1..Len(Images) :
         i < j => /\ Images[i].Key # Images[j].Key
                  /\ Images[i].LastModified >= Images[j].LastModified
    /\ \A o \in bucket :
         (\A i \in 1..Len(Images) : Images[i].Key # o.key) =>
           \A i \in 1..Len(Images) : Images[i].LastModified >= o.uploaded

\* -------------------------------------------------------- POST /sms
Answered == sms.status # 0
Forwarded == sms.twilio # <<>>
Recipient == sms.body.recipientPhoneNumber

\* C19, as stated: Twilio is called only for the allowed recipient, and a
\* request naming any other recipient is answered 403 without a call to Twilio.
SingleRecipientAsStated ==
  /\ Forwarded => Recipient = ALLOWED_SMS_RECIPIENT
  /\ (Answered /\ Recipient # ALLOWED_SMS_RECIPIENT) => (sms.status = 403 /\ ~Forwarded)

\* C19: Twilio is called only for the allowed recipient, with that recipient
\* as To; a request naming another recipient is never forwarded, and it is
\* answered 403 when the credentials are configured and the body holds both
\* a recipient and a mediaUrl (500 or 400 otherwise).
SingleRecipient ==
  /\ \A i \in 1..Len(sms.twilio) :
       sms.twilio[i].To = ALLOWED_SMS_RECIPIENT /\ Recipient = ALLOWED_SMS_RECIPIENT
  /\ (Answered /\ Recipient # ALLOWED_SMS_RECIPIENT) =>
       /\ ~Forwarded
       /\ sms.status = IF ~sms.body.configured THEN 500
                       ELSE IF Recipient = "" \/ sms.body.mediaUrl = NoUrl THEN 400
                       ELSE 403

SingleRecipientWitness ==
  /\ sms.status = 403
  /\ Recipient \notin {"", ALLOWED_SMS_RECIPIENT}
  /\ sms.body.mediaUrl \in ImageUrls
  /\ \E o \in sms.bucket : o.key = sms.body.mediaUrl.key
  /\ ~Forwarded

\* C20: a message is forwarded to Twilio only when its mediaUrl names an
\* object that is in the bucket when the request is made.
RelayRequiresStoredObject ==
  \A i \in 1..Len(sms.twilio) :
    /\ sms.twilio[i].MediaUrl.dir = "image"
    /\ \E o \in sms.bucket : o.key = sms.twilio[i].MediaUrl.key

\* ------------------------------------------------------ failure statuses
\* a list or a put of the request threw
BackendFailed(r) == \E c \in Range(calls[r]) : c.op \in {"list", "put"} /\ ~c.ok

\* C21: 507 is answered only when the projected size (the counted size plus
\* the size of the upload) exceeds MAX_BUCKET_SIZE, and a request during
\* which a list or a put on the bucket threw is answered with an error
\* status that is not 507.
DistinctFailureStatuses ==
  \A r \in Reqs : pc[r] = "done" =>
    /\ resp[r].status = 507 =>
         /\ stats[r].totalSize + req[r].fileSize > MAX_BUCKET_SIZE
         /\ SumSizes(atStart[r]) + req[r].fileSize > MAX_BUCKET_SIZE
    /\ BackendFailed(r) => (resp[r].status >= 400 /\ resp[r].status # 507)

\* ------------------------------------------------------------- the keys
\* the upload of r was accepted: the put stored it and 200 was answered
Accepted(r) == pc[r] = "done" /\ resp[r].status = 200

\* C22: every accepted upload creates a new object: the put of an upload
\* replaces no object of the bucket, and two accepted uploads are stored
\* under two distinct keys, as two objects of the bucket, also when they are
\* handled concurrently or in the same millisecond.
UniqueKeys ==
  /\ [][\A r \in Reqs :
          (pc[r] = "put" /\ pc'[r] = "done" /\ resp'[r].status = 200) =>
            \A o \in bucket : o.key # resp'[r].fileName]_vars
  /\ [](\A r1, r2 \in Reqs :
          (r1 # r2 /\ Accepted(r1) /\ Accepted(r2)) =>
            resp[r1].fileName # resp[r2].fileName)

\* ------------------------------------------------ the plan and its targets
\* the number of keys the plan selects from the listed inventory of r for
\* the targets ts and tc
NumSelected(r, ts, tc) == Len(PlanCleanup(allObjects[r], ts, tc).filesToDelete)

\* the targets ts, tc raise one target of r's cleanup and keep the other
Loosens(r, ts, tc) ==
  \/ ts >= target[r].size /\ tc = target[r].count
  \/ ts = target[r].size /\ tc >= target[r].count

\* C23: for the inventory a cleanup has listed, a plan for a higher
\* targetSize or a higher targetCount (the other unchanged) selects at most
\* as many objects as the plan the cleanup made.
MonotonicInTargets ==
  \A r \in Reqs : Planned(r) =>
    \A ts \in PlanTargetSizes, tc \in 0..MaxPlanFiles :
      Loosens(r, ts, tc) => NumSelected(r, ts, tc) <= Len(Selected(r))

\* a cleanup has selected keys for its size target: a higher targetSize
\* selects fewer, a higher targetCount selects as many
MonotonicInTargetsWitness ==
  \E r \in Reqs :
    /\ Planned(r)
    /\ \E ts \in PlanTargetSizes :
         ts > target[r].size /\ NumSelected(r, ts, target[r].count) < Len(Selected(r))
    /\ \E tc \in 0..MaxPlanFiles :
         tc > target[r].count /\ NumSelected(r, target[r].size, tc) = Len(Selected(r))

\* ------------------------------------------------------- two snapshots
\* getBucketStats has returned to the handler of r
SnapshotTaken(r) == pc[r] \notin {"idle", "stats"}

\* C24: two calls of getBucketStats on a bucket that nothing is put to or
\* deleted from return the same totalSize and the same fileCount.
IdempotentSnapshot ==
  \A r1, r2 \in Reqs :
    (SnapshotTaken(r1) /\ SnapshotTaken(r2)) =>
      /\ stats[r1].totalSize = stats[r2].totalSize
      /\ stats[r1].fileCount = stats[r2].fileCount

\* ------------------------------------------------- the order of the steps
\* the step of the admission a bucket call belongs to: the snapshot (1), the
\* listing of the cleanup (2), its deletes (3), the put (4)
StepOf(c) ==
  IF c.by = "stats" THEN 1
  ELSE IF c.op = "list" THEN 2
  ELSE IF c.op = "delete" THEN 3
  ELSE 4

\* C25: the bucket calls of one upload request come in the order snapshot,
\* cleanup (listing, then every delete), put: the put is the last call and
\* follows the snapshot and an accepting decision, a triggered cleanup has
\* attempted the delete of every selected key before the put, and a
\* rejected request has made no call after the snapshot.
AdmissionOrdering ==
  \A r \in Reqs :
    /\ \A i, j \in 1..Len(calls[r]) :
         i < j => (StepOf(calls[r][i]) <= StepOf(calls[r][j]) /\ StepOf(calls[r][i]) # 4)
    /\ PutIssued(r) =>
         /\ StepOf(calls[r][1]) = 1
         /\ ~IsAtCapacity(ProjectedSize(r))
         /\ NeedsCleanup(ProjectedSize(r), ProjectedCount(r)) <=> CleanupCalled(r)
         /\ Planned(r) =>
              \A i \in 1..Len(Selected(r)) :
                \E c \in CallsOf(r, "delete", "cleanup") : c.key = Selected(r)[i]
    /\ resp[r].status = 507 => \A i \in 1..Len(calls[r]) : StepOf(calls[r][i]) = 1

\* an upload was stored after a cleanup that attempted two deletes
AdmissionOrderingWitness ==
  \E r \in Reqs :
    /\ Accepted(r)
    /\ Len(Selected(r)) >= 2
    /\ Cardinality(CallsOf(r, "delete", "cleanup")) >= 2
    /\ StepOf(calls[r][Len(calls[r])]) = 4

\* ------------------------------------------------------- the tie-break
\* the keys a cleanup of r selects when the store lists the inventory in
\* key order
SelectedInKeyOrder(r) ==
  PlanCleanup(SortByUploaded(InKeyOrder(Listed(r))),
              target[r].size, target[r].count).filesToDelete

\* C26: of two listed objects with the same upload time the one with the
\* smaller key comes first in the eviction order, and the selected keys are
\* those selected for a listing in key order, whatever the order in which
\* the store returned the objects.
DeterministicTieBreak ==
  \A r \in Reqs : Planned(r) =>
    /\ \A i, j \in 1..Len(allObjects[r]) :
         (i < j /\ allObjects[r][i].uploaded = allObjects[r][j].uploaded) =>
           KeyLess(allObjects[r][i].key, allObjects[r][j].key)
    /\ Range(Selected(r)) = Range(SelectedInKeyOrder(r))

\* ------------------------------------------------------- one snapshot
\* C27: the inventory the cleanup of a request plans over is the inventory
\* its admission decision was taken on: the objects cleanupOldFiles listed
\* are as many and as large in total as those getBucketStats counted, also
\* when other requests put or delete objects in between.
OneSnapshot ==
  \A r \in Reqs : (Planned(r) /\ StatsReturned(r)) =>
    /\ Cardinality(Listed(r)) = stats[r].fileCount
    /\ SumSizes(Listed(r)) = stats[r].totalSize

\* ---------------------------------------------------------- rate limit
\* the request i of the log opened a window for its client
Opened(i) == fetchLog[i].limited /\ fetchLog[i].handled /\ fetchLog[i].after.count = 1

\* the request j is a request of the client of i to a rate-limited route in
\* the window that i opened
InWindow(i, j) ==
  /\ i <= j
  /\ fetchLog[j].ip = fetchLog[i].ip
  /\ fetchLog[j].limited
  /\ fetchLog[j].at <= fetchLog[i].after.resetTime

AdmittedUpTo(i, k) == {j \in 1..k : InWindow(i, j) /\ fetchLog[j].handled}

\* C28: in every window that checkRateLimit opens for a client (from its
\* first admitted request to its resetTime, RATE_LIMIT_WINDOW later) at most
\* RATE_LIMIT_REQUESTS requests of that client to rate-limited routes are
\* admitted; each further one in the window is answered 429, reaches no
\* handler and leaves the client's count and resetTime as they are.
RateLimitBound ==
  \A i \in 1..Len(fetchLog) : Opened(i) =>
    /\ fetchLog[i].after.resetTime = fetchLog[i].at + RATE_LIMIT_WINDOW
    /\ Cardinality(AdmittedUpTo(i, Len(fetchLog))) <= RATE_LIMIT_REQUESTS
    /\ \A j \in 1..Len(fetchLog) :
         (InWindow(i, j) /\ Cardinality(AdmittedUpTo(i, j - 1)) >= RATE_LIMIT_REQUESTS) =>
           /\ fetchLog[j].status = 429
           /\ ~fetchLog[j].handled
           /\ fetchLog[j].after = fetchLog[j].before

\* a client was admitted RATE_LIMIT_REQUESTS times in a window, refused in
\* the same window and admitted again after it
RateLimitBoundWitness ==
  \E i, j, k \in 1..Len(fetchLog) :
    /\ Opened(i)
    /\ Cardinality(AdmittedUpTo(i, j)) = RATE_LIMIT_REQUESTS
    /\ InWindow(i, j) /\ fetchLog[j].status = 429
    /\ j < k /\ Opened(k) /\ fetchLog[k].ip = fetchLog[i].ip

\* ------------------------------------------------- the stored content type
\* the puts of r that stored an object
Stored(r) == {c \in CallsOf(r, "put", "upload") : c.ok}

\* C29: every object an upload writes to the bucket carries a contentType
\* that is one of ALLOWED_IMAGE_TYPES (image/jpeg when the request gave
\* none), whatever contentType and fileName passed isValidImageType.
StoredTypeIsImage ==
  \A r \in Reqs : \A c \in Stored(r) : c.contentType \in ALLOWED_IMAGE_TYPES

\* ----------------------------------------------------- the sending flag
\* C30: once the page has sent the upload request of a send, whatever the
\* upload request and the SMS request come to (success, a Response that is
\* not ok with or without a JSON body, a fetch that fails), the sending flag
\* is false again at some later moment.
SendingEnds == (app.sending /\ app.pc = "upload") ~> ~app.sending

====
